---------------------------- MODULE Spec2Model ----------------------------
(***************************************************************************)
(* Model of restapigw/pkg/errors (error.go): the error chain (fundamental, *)
(* withStack, withMessage, *Error), its constructors and wrap operations,  *)
(* Cause, the fmt.Formatter methods, and the HTTP boundary handler with    *)
(* its two entry points NotFound and RecoveryHandler.                      *)
(*                                                                         *)
(* Go strings are TLA+ strings; + is \o.  An error value is a record whose *)
(* "type" field is its dynamic type; the nil interface value is Nil.       *)
(* Messages are drawn from an alphabet that strconv.Quote leaves unescaped,*)
(* so %q is the message between two double quotes.                         *)
(***************************************************************************)
EXTENDS Naturals, Sequences, FiniteSets, TLC

VARIABLES err, prev, root, hist, pc, call, printed, ret, out

vars == <<err, prev, root, hist, pc, call, printed, ret, out>>

(***************************************************************************)
(* Bounds and input sets.                                                  *)
(***************************************************************************)
\* number of wrap-style operations applied on top of a root
MaxDepth == 2

\* messages handed to New / NewWithCode
RootMessages == {"root", ""}

\* messages handed to Wrap / WithMessage
Messages == {"mid", "outer"}

\* messages of errors produced outside the package (errors.New of the stdlib)
ForeignMessages == {"disk full"}

\* format strings, as their segments: a literal text or the verb "%s"
Formats == { <<"read ", "%s">> }

\* arguments of Errorf / Wrapf
FormatArgs == { <<"cfg">> }

\* call sites: the frames callers() records there, innermost first
Sites == { <<"main.load\n\tmain.go:10">>,
           <<"pkg.open\n\tpkg.go:7", "main.load\n\tmain.go:12">> }

\* what runtime/debug.Stack() can return at handling time
StackDumps == { "goroutine 7 [running]:\nruntime/debug.Stack()" }

\* recovered panic values that are not errors
Payloads == { [type |-> "string", val |-> "boom"],
              [type |-> "int", val |-> "42"] }

\* the request's correlation id, read from its context
RequestIDs == { "req-1" }

\* status codes handed to NewWithCode by collaborators
CustomCodes == { 418 }

(***************************************************************************)
(* http status codes used by the package.                                  *)
(***************************************************************************)
StatusNotFound == 404
StatusBadRequest == 400
StatusInternalServerError == 500

(***************************************************************************)
(* Values.                                                                 *)
(***************************************************************************)
Nil == [type |-> "nil"]

\* callers(): the stack of the call site, the capture utility's own frames
\* skipped
callers(site) == site

\* a foreign error without a Cause method (errors.New of the standard library)
errorString(s) == [type |-> "errorString", s |-> s]

\* fmt.Sprintf restricted to %s verbs
RECURSIVE Sprintf(_, _)
Sprintf(format, args) ==
    IF format = <<>> THEN ""
    ELSE IF Head(format) = "%s"
         THEN (IF args = <<>> THEN "%!s(MISSING)" ELSE Head(args))
              \o Sprintf(Tail(format), IF args = <<>> THEN args ELSE Tail(args))
         ELSE Head(format) \o Sprintf(Tail(format), args)

\* strconv.Quote on the messages' alphabet
Quote(s) == "\"" \o s \o "\""

(***************************************************************************)
(* Constructors.                                                           *)
(***************************************************************************)
New(message, site) ==
    [type |-> "fundamental", msg |-> message, stack |-> callers(site)]

Errorf(format, args, site) ==
    [type |-> "fundamental", msg |-> Sprintf(format, args), stack |-> callers(site)]

NewWithCode(code, message) ==
    [type |-> "Error", Code |-> code, Message |-> message]

ErrRouteNotFound == NewWithCode(StatusNotFound, "no API found with those values")

ErrInvalidID == NewWithCode(StatusBadRequest, "please provide a valid ID")

(***************************************************************************)
(* Wrap-style operations.                                                  *)
(***************************************************************************)
Wrap_NoNilCheck(e, message, site) ==
    [type |-> "withStack",
     error |-> [type |-> "withMessage", cause |-> e, msg |-> message],
     stack |-> callers(site)]

Wrap(e, message, site) ==
    IF Nil = e THEN Nil
    ELSE LET e2 == [type |-> "withMessage", cause |-> e, msg |-> message]
         IN  [type |-> "withStack", error |-> e2, stack |-> callers(site)]

Wrapf(e, format, args, site) ==
    IF Nil = e THEN Nil
    ELSE LET e2 == [type |-> "withMessage", cause |-> e, msg |-> Sprintf(format, args)]
         IN  [type |-> "withStack", error |-> e2, stack |-> callers(site)]

WithStack(e, site) ==
    IF Nil = e THEN Nil
    ELSE [type |-> "withStack", error |-> e, stack |-> callers(site)]

WithMessage(e, message) ==
    IF Nil = e THEN Nil
    ELSE [type |-> "withMessage", cause |-> e, msg |-> message]

(***************************************************************************)
(* Error() methods.                                                        *)
(***************************************************************************)
RECURSIVE ErrorOf(_)

ErrorError(e) == e.Message

fundamentalError(f) == f.msg

withMessageError_Swapped(w) == ErrorOf(w.cause) \o ": " \o w.msg

withMessageError(w) == w.msg \o ": " \o ErrorOf(w.cause)

\* withStack has no Error method of its own: the embedded error's is promoted
withStackError(w) == ErrorOf(w.error)

\* the call e.Error() through the error interface
ErrorOf(e) ==
    CASE e.type = "Error"       -> ErrorError(e)
      [] e.type = "fundamental" -> fundamentalError(e)
      [] e.type = "withMessage" -> withMessageError(e)
      [] e.type = "withStack"   -> withStackError(e)
      [] e.type = "errorString" -> e.s

(***************************************************************************)
(* Cause.                                                                  *)
(***************************************************************************)
withStackCause(w) == w.error

withMessageCause(w) == w.cause

IsCauser_StackOnly(e) == e.type \in {"withStack"}

\* err.(causer): the dynamic type has a Cause() error method
IsCauser(e) == e.type \in {"withStack", "withMessage"}

CauseMethod(e) ==
    IF e.type = "withStack" THEN withStackCause(e) ELSE withMessageCause(e)

RECURSIVE CauseLoop(_)
CauseLoop(e) ==
    IF Nil # e
    THEN IF ~IsCauser(e) THEN e ELSE CauseLoop(CauseMethod(e))
    ELSE e

Cause_OneStep(e) ==
    IF Nil # e /\ IsCauser(e) THEN CauseMethod(e) ELSE e

Cause(e) == CauseLoop(e)

(***************************************************************************)
(* fmt.Formatter methods.  Each returns the text it writes to the           *)
(* fmt.State; verb is the verb's rune, plus the '+' flag.                  *)
(***************************************************************************)
RECURSIVE Fprintf(_, _, _)

\* (*stack).Format: with %+v one "\n<function>\n\t<file>:<line>" per frame,
\* nothing otherwise
RECURSIVE stackFormat(_, _, _)
stackFormat(st, verb, plus) ==
    IF verb = "v" /\ plus /\ st # <<>>
    THEN "\n" \o Head(st) \o stackFormat(Tail(st), verb, plus)
    ELSE ""

fundamentalFormat(f, verb, plus) ==
    CASE verb = "v" ->
            IF plus
            THEN f.msg \o stackFormat(f.stack, verb, plus)
            ELSE f.msg
      [] verb = "s" -> f.msg
      [] verb = "q" -> Quote(f.msg)
      [] OTHER -> ""

withStackFormat(w, verb, plus) ==
    CASE verb = "v" ->
            IF plus
            THEN Fprintf("v", TRUE, withStackCause(w))
                    \o stackFormat(w.stack, verb, plus)
            ELSE withStackError(w)
      [] verb = "s" -> withStackError(w)
      [] verb = "q" -> Quote(withStackError(w))
      [] OTHER -> ""

withMessageFormat_StackFirst(w, verb, plus) ==
    CASE verb = "v" ->
            IF plus
            THEN w.msg \o "\n" \o Fprintf("v", TRUE, withMessageCause(w))
            ELSE withMessageError(w)
      [] verb \in {"s", "q"} -> withMessageError(w)
      [] OTHER -> ""

withMessageFormat(w, verb, plus) ==
    CASE verb = "v" ->
            IF plus
            THEN Fprintf("v", TRUE, withMessageCause(w)) \o "\n" \o w.msg
            ELSE withMessageError(w)
      [] verb \in {"s", "q"} -> withMessageError(w)
      [] OTHER -> ""

\* fmt on an error value: its Format method when it has one, else its Error()
\* text (quoted by %q)
Fprintf(verb, plus, e) ==
    CASE e.type = "fundamental" -> fundamentalFormat(e, verb, plus)
      [] e.type = "withStack"   -> withStackFormat(e, verb, plus)
      [] e.type = "withMessage" -> withMessageFormat(e, verb, plus)
      [] OTHER -> IF verb = "q" THEN Quote(ErrorOf(e)) ELSE ErrorOf(e)

(***************************************************************************)
(* The boundary handler.  It returns the calls it makes on its              *)
(* collaborators, in order: the logger's entry and render.JSON's response. *)
(***************************************************************************)
GoString(s) == [type |-> "string", val |-> s]

IsError(v) ==
    v.type \in {"Error", "fundamental", "withStack", "withMessage", "errorString"}

\* a log field's value
Str(s) == [kind |-> "string", s |-> s]
Int(n) == [kind |-> "int", n |-> n]
Val(v) == [kind |-> "value", v |-> v]

\* the logger's fields after WithField(key, value) / SetFields
WithField(fields, key, value) ==
    [k \in DOMAIN fields \cup {key} |-> IF k = key THEN value ELSE fields[k]]

\* logging.GetLogger() followed by WithField("request-id", id), whose result
\* the handler drops: a logger that answers with a derived entry keeps no
\* field (scoped = FALSE), one that updates itself keeps it (scoped = TRUE)
GetLogger(id, scoped) ==
    IF scoped THEN WithField(<<>>, "request-id", Str(id)) ELSE <<>>

LogEntry(level, fields, message) ==
    [call |-> "log", level |-> level, fields |-> fields, message |-> message]

\* encoding/json on the payloads the handler renders: *Error has the one
\* exported key "error" (Code is tagged "-")
JSONEncode(obj) ==
    CASE obj.type = "Error"  -> "{\"error\":" \o Quote(obj.Message) \o "}"
      [] obj.type = "string" -> Quote(obj.val)
      [] obj.type = "int"    -> obj.val
      [] obj.type = "nil"    -> "null"

\* render.JSON(rw, code, obj)
RenderJSON(code, obj) ==
    [call |-> "render", status |-> code, obj |-> obj, body |-> JSONEncode(obj)]

Handler_Unwrapping(v, id, dump, scoped) ==
    LET logger == GetLogger(id, scoped)
        c == IF IsError(v) THEN Cause(v) ELSE v
    IN  CASE c.type = "Error" ->
               << LogEntry("info",
                    WithField(WithField(logger, "code", Int(c.Code)),
                              "error", Str(ErrorError(c))),
                    "Internal error handled"),
                  RenderJSON(c.Code, c) >>
          [] c.type # "Error" /\ IsError(v) ->
               << LogEntry("error",
                    WithField(WithField(logger, "error", Str(ErrorOf(v))),
                              "stack", Str(dump)),
                    "Internal server error handled"),
                  RenderJSON(StatusInternalServerError, GoString(ErrorOf(v))) >>
          [] OTHER ->
               << LogEntry("error",
                    WithField(WithField(logger, "error", Val(v)),
                              "stack", Str(dump)),
                    "Internal server error handled"),
                  RenderJSON(StatusInternalServerError, v) >>

Handler_RenderFirst(v, id, dump, scoped) ==
    LET logger == GetLogger(id, scoped)
    IN  CASE v.type = "Error" ->
               << LogEntry("info",
                    WithField(WithField(logger, "code", Int(v.Code)),
                              "error", Str(ErrorError(v))),
                    "Internal error handled"),
                  RenderJSON(v.Code, v) >>
          [] v.type # "Error" /\ IsError(v) ->
               << LogEntry("error",
                    WithField(WithField(logger, "error", Str(ErrorOf(v))),
                              "stack", Str(dump)),
                    "Internal server error handled"),
                  RenderJSON(StatusInternalServerError, GoString(ErrorOf(v))) >>
          [] OTHER ->
               << RenderJSON(StatusInternalServerError, v),
                  LogEntry("error",
                    WithField(WithField(logger, "error", Val(v)),
                              "stack", Str(dump)),
                    "Internal server error handled") >>

Handler_AlwaysError(v, id, dump, scoped) ==
    LET logger == GetLogger(id, scoped)
    IN  CASE v.type = "Error" ->
               << LogEntry("error",
                    WithField(WithField(WithField(logger, "code", Int(v.Code)),
                              "error", Str(ErrorError(v))), "stack", Str(dump)),
                    "Internal error handled"),
                  RenderJSON(v.Code, v) >>
          [] v.type # "Error" /\ IsError(v) ->
               << LogEntry("error",
                    WithField(WithField(logger, "error", Str(ErrorOf(v))),
                              "stack", Str(dump)),
                    "Internal server error handled"),
                  RenderJSON(StatusInternalServerError, GoString(ErrorOf(v))) >>
          [] OTHER ->
               << LogEntry("error",
                    WithField(WithField(logger, "error", Val(v)),
                              "stack", Str(dump)),
                    "Internal server error handled"),
                  RenderJSON(StatusInternalServerError, v) >>

\* v is the failure value, id the request's correlation id, dump what
\* debug.Stack() returns during the call
Handler(v, id, dump, scoped) ==
    LET logger == GetLogger(id, scoped)
    IN  CASE v.type = "Error" ->
               << LogEntry("info",
                    WithField(WithField(logger, "code", Int(v.Code)),
                              "error", Str(ErrorError(v))),
                    "Internal error handled"),
                  RenderJSON(v.Code, v) >>
          [] v.type # "Error" /\ IsError(v) ->
               << LogEntry("error",
                    WithField(WithField(logger, "error", Str(ErrorOf(v))),
                              "stack", Str(dump)),
                    "Internal server error handled"),
                  RenderJSON(StatusInternalServerError, GoString(ErrorOf(v))) >>
          [] OTHER ->
               << LogEntry("error",
                    WithField(WithField(logger, "error", Val(v)),
                              "stack", Str(dump)),
                    "Internal server error handled"),
                  RenderJSON(StatusInternalServerError, v) >>

NotFound_InvalidID(id, dump, scoped) == Handler(ErrInvalidID, id, dump, scoped)

NotFound(id, dump, scoped) == Handler(ErrRouteNotFound, id, dump, scoped)

RecoveryHandler(v, id, dump, scoped) == Handler(v, id, dump, scoped)

(***************************************************************************)
(* The state machine: application code builds a chain, then hands it to    *)
(* one consumer.                                                           *)
(***************************************************************************)
H(op, msg, stack) == [op |-> op, msg |-> msg, stack |-> stack]

NoCall == [op |-> "none"]

Init ==
    /\ err = Nil
    /\ prev = Nil
    /\ root = Nil
    /\ hist = << >>
    /\ pc = "start"
    /\ call = NoCall
    /\ printed = ""
    /\ ret = Nil
    /\ out = << >>

Building == pc = "build" /\ Len(hist) <= MaxDepth

Produce(e, h) ==
    /\ pc = "start"
    /\ err' = e
    /\ prev' = Nil
    /\ root' = e
    /\ hist' = <<h>>
    /\ pc' = "build"
    /\ UNCHANGED <<call, printed, ret, out>>

Apply(e, h) ==
    /\ Building
    /\ err' = e
    /\ prev' = err
    /\ hist' = Append(hist, h)
    /\ UNCHANGED <<root, pc, call, printed, ret, out>>

DoNew ==
    \E m \in RootMessages, s \in Sites : Produce(New(m, s), H("New", m, s))

DoErrorf ==
    \E f \in Formats, a \in FormatArgs, s \in Sites :
        Produce(Errorf(f, a, s), H("Errorf", Sprintf(f, a), s))

DoNewWithCode ==
    \E c \in CustomCodes, m \in RootMessages :
        Produce(NewWithCode(c, m), H("NewWithCode", m, <<>>))

DoSentinel ==
    \E e \in {ErrRouteNotFound, ErrInvalidID} :
        Produce(e, H("NewWithCode", e.Message, <<>>))

DoForeign ==
    \E m \in ForeignMessages : Produce(errorString(m), H("foreign", m, <<>>))

\* a fallible operation that succeeded: the absent error
DoNoError == Produce(Nil, H("nil", "", <<>>))

DoWrap ==
    \E m \in Messages, s \in Sites : Apply(Wrap(err, m, s), H("Wrap", m, s))

DoWrapf ==
    \E f \in Formats, a \in FormatArgs, s \in Sites :
        Apply(Wrapf(err, f, a, s), H("Wrapf", Sprintf(f, a), s))

DoWithStack ==
    \E s \in Sites : Apply(WithStack(err, s), H("WithStack", "", s))

DoWithMessage ==
    \E m \in Messages \cup {""} :
        Apply(WithMessage(err, m), H("WithMessage", m, <<>>))

DoCause ==
    /\ pc = "build"
    /\ ret' = Cause(err)
    /\ call' = [op |-> "Cause"]
    /\ pc' = "done"
    /\ UNCHANGED <<err, prev, root, hist, printed, out>>

\* fmt.Sprintf("%<verb>", err) on a non-nil error
DoPrintf ==
    /\ pc = "build"
    /\ err # Nil
    /\ \E verb \in {"s", "v", "q"}, plus \in BOOLEAN :
          /\ printed' = Fprintf(verb, plus, err)
          /\ call' = [op |-> "Printf", verb |-> verb, plus |-> plus]
    /\ pc' = "done"
    /\ UNCHANGED <<err, prev, root, hist, ret, out>>

Boundary(entry, v, id, dump, scoped, calls) ==
    /\ out' = calls
    /\ call' = [op |-> entry, v |-> v, id |-> id, dump |-> dump, scoped |-> scoped]
    /\ pc' = "done"
    /\ UNCHANGED <<err, prev, root, hist, printed, ret>>

\* application code reports the error it holds (possibly the absent one)
DoHandler ==
    /\ pc = "build"
    /\ \E id \in RequestIDs, dump \in StackDumps, scoped \in BOOLEAN :
          Boundary("Handler", err, id, dump, scoped, Handler(err, id, dump, scoped))

\* application code reports a value that is not an error
DoHandlerValue ==
    /\ pc = "start"
    /\ \E v \in Payloads, id \in RequestIDs, dump \in StackDumps, scoped \in BOOLEAN :
          Boundary("Handler", v, id, dump, scoped, Handler(v, id, dump, scoped))

DoNotFound ==
    /\ pc = "start"
    /\ \E id \in RequestIDs, dump \in StackDumps, scoped \in BOOLEAN :
          Boundary("NotFound", Nil, id, dump, scoped, NotFound(id, dump, scoped))

\* a panic(err) with the error held
DoRecoveryHandler ==
    /\ pc = "build"
    /\ \E id \in RequestIDs, dump \in StackDumps, scoped \in BOOLEAN :
          Boundary("RecoveryHandler", err, id, dump, scoped,
                   RecoveryHandler(err, id, dump, scoped))

\* a panic with a value that is not an error
DoRecoveryHandlerValue ==
    /\ pc = "start"
    /\ \E v \in Payloads, id \in RequestIDs, dump \in StackDumps, scoped \in BOOLEAN :
          Boundary("RecoveryHandler", v, id, dump, scoped,
                   RecoveryHandler(v, id, dump, scoped))

Next ==
    \/ DoNew
    \/ DoErrorf
    \/ DoNewWithCode
    \/ DoSentinel
    \/ DoForeign
    \/ DoNoError
    \/ DoWrap
    \/ DoWrapf
    \/ DoWithStack
    \/ DoWithMessage
    \/ DoCause
    \/ DoPrintf
    \/ DoHandler
    \/ DoHandlerValue
    \/ DoNotFound
    \/ DoRecoveryHandler
    \/ DoRecoveryHandlerValue

Spec == Init /\ [][Next]_vars

(***************************************************************************)
(* Properties.  hist records the operations applied so far, the root's     *)
(* first; prev is the value the last wrap-style operation was given.       *)
(***************************************************************************)
Ops(h) == [i \in DOMAIN h |-> h[i].op]

LastOp == hist[Len(hist)].op

Wrapped == Len(hist) >= 2

\* the messages of the MessageAnnotated nodes, outermost first, then the root's
RECURSIVE MessageTrail(_)
MessageTrail(h) ==
    IF Len(h) = 1 THEN << h[1].msg >>
    ELSE LET rest == MessageTrail(SubSeq(h, 1, Len(h) - 1))
         IN  IF h[Len(h)].op = "WithStack" THEN rest
             ELSE << h[Len(h)].msg >> \o rest

RECURSIVE Join(_, _)
Join(list, sep) ==
    IF Len(list) = 1 THEN list[1]
    ELSE list[1] \o sep \o Join(Tail(list), sep)

\* the full form of a stack snapshot: one line pair per frame
RECURSIVE FramesText(_)
FramesText(st) ==
    IF st = <<>> THEN "" ELSE "\n" \o st[1] \o FramesText(Tail(st))

\* root first, outermost wrap last: each node's message, then its stack
RECURSIVE VerboseTrace(_)
VerboseTrace(h) ==
    IF Len(h) = 1 THEN h[1].msg \o FramesText(h[1].stack)
    ELSE VerboseTrace(SubSeq(h, 1, Len(h) - 1))
            \o "\n" \o h[Len(h)].msg \o FramesText(h[Len(h)].stack)

\* C1: a wrap-style operation (Wrap, Wrapf, WithStack, WithMessage) given the
\* absent error returns the absent error, and given a non-absent error returns
\* a non-absent one, at every depth of composition.
C1_NilTransparency ==
    Wrapped => /\ (prev = Nil => err = Nil)
               /\ (prev # Nil => err # Nil)

C1_Witness ==
    /\ Ops(hist) = <<"nil", "WithStack", "Wrap">>
    /\ prev = Nil
    /\ err = Nil

\* C2: a wrap-style operation applied to a non-absent error leaves the root
\* cause unchanged: Cause(op(e, ...)) = Cause(e).
C2_CausePreserved ==
    (Wrapped /\ prev # Nil) => Cause(err) = Cause(prev)

C2_Witness ==
    /\ Ops(hist) = <<"NewWithCode", "WithMessage", "Wrap">>
    /\ Cause(err) = ErrRouteNotFound
    /\ Cause(prev) = ErrRouteNotFound

\* C3: Error() of a chain is the messages of its MessageAnnotated nodes,
\* outermost first, then the root's message, joined by ": "; a StackAnnotated
\* node adds nothing; Wrap(Wrap(New("root"), "mid"), "outer") reads
\* "outer: mid: root".
C3_MessageComposition ==
    (hist # <<>> /\ err # Nil) =>
        /\ ErrorOf(err) = Join(MessageTrail(hist), ": ")
        /\ (Wrapped /\ LastOp = "WithStack" => ErrorOf(err) = ErrorOf(prev))
        /\ (/\ Ops(hist) = <<"New", "Wrap", "Wrap">>
            /\ hist[1].msg = "root" /\ hist[2].msg = "mid" /\ hist[3].msg = "outer"
            => ErrorOf(err) = "outer: mid: root")

C3_Witness ==
    /\ Ops(hist) = <<"New", "Wrap", "Wrap">>
    /\ hist[1].msg = "root" /\ hist[2].msg = "mid" /\ hist[3].msg = "outer"
    /\ ErrorOf(err) = "outer: mid: root"

\* C4: the response Handler writes depends on the outermost value only: a
\* *Error gives its own status and the body {"error": message}; any other
\* error, a chain over a *Error included, gives 500 and its message as a JSON
\* string; a value that is no error gives 500 and the value itself.
C4_ResponseByShape ==
    call.op = "Handler" =>
        \E i \in DOMAIN out :
            /\ out[i].call = "render"
            /\ call.v.type = "Error" =>
                   /\ out[i].status = call.v.Code
                   /\ out[i].body = "{\"error\":\"" \o call.v.Message \o "\"}"
            /\ (IsError(call.v) /\ call.v.type # "Error") =>
                   /\ out[i].status = 500
                   /\ out[i].body = "\"" \o ErrorOf(call.v) \o "\""
            /\ ~IsError(call.v) =>
                   /\ out[i].status = 500
                   /\ out[i].obj = call.v

C4_Witness ==
    /\ call.op = "Handler"
    /\ IsCauser(call.v)
    /\ Cause(call.v) = ErrRouteNotFound
    /\ out[2].status = 500
    /\ out[2].body = "\"outer: no API found with those values\""

C6_SeverityAndStack ==
    call.op = "Handler" =>
        \E i \in DOMAIN out :
            /\ out[i].call = "log"
            /\ call.v.type = "Error" =>
                   /\ out[i].level = "info"
                   /\ DOMAIN out[i].fields \ {"request-id"} = {"code", "error"}
                   /\ out[i].fields["code"] = Int(call.v.Code)
                   /\ out[i].fields["error"] = Str(call.v.Message)
            /\ call.v.type # "Error" =>
                   /\ out[i].level = "error"
                   /\ "stack" \in DOMAIN out[i].fields
                   /\ out[i].fields["stack"] = Str(call.dump)
                   /\ Len(call.dump) > 0
                   /\ \A j \in DOMAIN hist :
                          out[i].fields["stack"].s # FramesText(hist[j].stack)

C6_Witness ==
    /\ call.op = "Handler"
    /\ call.v.type = "withStack"
    /\ out[1].level = "error"
    /\ out[1].fields["stack"] = Str(call.dump)

\* C7: %+v of a chain of Wrap calls over a New root writes the root's message,
\* the root's stack, then for each wrap from the innermost to the outermost
\* its message followed by its own stack; every node once.
C7_VerboseOrder ==
    (/\ call.op = "Printf" /\ call.verb = "v" /\ call.plus
     /\ hist[1].op = "New"
     /\ \A i \in 2..Len(hist) : hist[i].op = "Wrap")
    => printed = VerboseTrace(hist)

C7_Witness ==
    /\ call.op = "Printf" /\ call.verb = "v" /\ call.plus
    /\ Ops(hist) = <<"New", "Wrap", "Wrap">>
    /\ hist[2].stack # hist[3].stack
    /\ hist[2].msg # hist[3].msg
    /\ printed = VerboseTrace(hist)

\* C8: for a Fundamental, a StackAnnotated and a MessageAnnotated node alike,
\* %s and plain %v write exactly Error(), and %q writes Error() quoted.
C8_PlainVerbs ==
    (/\ call.op = "Printf" /\ ~call.plus
     /\ err.type \in {"fundamental", "withStack", "withMessage"})
    => /\ call.verb \in {"s", "v"} => printed = ErrorOf(err)
       /\ call.verb = "q" => printed = Quote(ErrorOf(err))

\* C9: NotFound answers as Handler given ErrRouteNotFound does (404 and
\* {"error":"no API found with those values"}), and RecoveryHandler answers
\* as Handler given the same value does: same log entry, same response.
C9_EntryPointsAreHandler ==
    /\ call.op = "NotFound" =>
           /\ out = Handler(ErrRouteNotFound, call.id, call.dump, call.scoped)
           /\ out[2].status = 404
           /\ out[2].body = "{\"error\":\"no API found with those values\"}"
    /\ call.op = "RecoveryHandler" =>
           out = Handler(call.v, call.id, call.dump, call.scoped)

C9_Witness ==
    /\ call.op = "NotFound"
    /\ out[1].level = "info"
    /\ out[2].status = 404
    /\ out[2].body = "{\"error\":\"no API found with those values\"}"

\* C10: Cause returns the root the chain was built from, a value without a
\* Cause method; Cause of a root is the root, Cause of the absent error is
\* absent, and Cause of what Cause returned is the same value.
C10_CauseReturnsRoot ==
    call.op = "Cause" =>
        /\ ret = root
        /\ (ret # Nil => ~IsCauser(ret))
        /\ Cause(ret) = ret
        /\ (err = Nil => ret = Nil)

C10_Witness ==
    /\ call.op = "Cause"
    /\ Ops(hist) = <<"foreign", "Wrapf", "WithStack">>
    /\ ret = root
    /\ ret = errorString("disk full")

=============================================================================
